---- MODULE Spec2Model ----
(***************************************************************************)
(* Lock Render Aspect Ratio (src/__init__.py): the add-on's two callbacks, *)
(* on_lock_toggle and resolution_changed, acting on one scene of the host. *)
(*                                                                         *)
(* The host (Blender) is the environment.  It applies a user's edit to     *)
(* resolution_x / resolution_y / is_locked, runs the property's update     *)
(* callback, and publishes a change of resolution_x or resolution_y to the *)
(* subscription of that key.  Whether a publication runs the subscriber    *)
(* at once (nested in the write) or at the host's next event-loop turn is  *)
(* the host's business: both are modelled (variable sync).                 *)
(***************************************************************************)
EXTENDS Integers, Sequences, FiniteSets, TLC

\* Largest value the user types into a resolution field.
MaxRes == 3

\* How often the host executes the module again on the same scene.
MaxReloads == 1

\* A step's callback writes are numbered; one beyond MaxFailAt never fails.
MaxFailAt == 2

VARIABLES
    resolution_x,   \* scene.render.resolution_x
    resolution_y,   \* scene.render.resolution_y
    is_locked,      \* props.is_locked
    locked_ratio,   \* props.locked_ratio, a single-precision float
    prev_res_x,     \* props.prev_res_x
    prev_res_y,     \* props.prev_res_y
    _is_internally_updating_resolution,  \* the module-level flag
    pending,        \* keys whose subscription is tagged and not yet run
    sync,           \* TRUE: the host runs a subscriber inside the write
    minRes,         \* smallest value the host lets into a resolution field
    log,            \* what the last step did: writes and handler calls
    lastOp,         \* the user's last operation
    engaged,        \* the pair the lock was engaged at, up to the next edit
    faulty,         \* TRUE: the host may refuse a write a callback makes
    reloads,        \* how often the host has executed the module again
    host            \* what of the add-on the host holds, and the steps of
                    \* the last register() and unregister()

vars == <<resolution_x, resolution_y, is_locked, locked_ratio, prev_res_x,
          prev_res_y, _is_internally_updating_resolution, pending, sync,
          minRes, log, lastOp, engaged, faulty,
          reloads, host>>

-----------------------------------------------------------------------------
(* Arithmetic.                                                             *)

\* max() that returns its second argument: the clamp to 1 left out.
Max_NoClamp(a, b) == b

Max(a, b) == IF a >= b THEN a ELSE b

RECURSIVE Pow2(_)
Pow2(n) == IF n = 0 THEN 1 ELSE 2 * Pow2(n - 1)

\* Python's round() of the non-negative rational n / d: to nearest, a tie
\* to the even neighbour.
Round(n, d) ==
    LET q == n \div d
        r == n % d
    IN  IF 2 * r > d THEN q + 1
        ELSE IF 2 * r < d THEN q
        ELSE IF q % 2 = 0 THEN q ELSE q + 1

\* A single-precision value is m / 2^e with 2^23 <= m < 2^24, or zero.
Zero == [m |-> 0, e |-> 0]

\* FloatProperty(default=1.0)
One == [m |-> Pow2(23), e |-> 23]

\* Exponent of the float nearest x / y: the least e with x * 2^e >= 2^23 * y.
RECURSIVE Exponent(_, _, _)
Exponent(x, y, e) ==
    IF x * Pow2(e) >= Pow2(23) * y THEN e ELSE Exponent(x, y, e + 1)

\* The quotient taken with // : the float of floor(x / y), zero for x < y.
Float32Div_Floor(x, y) ==
    LET q == x \div y
    IN  IF q = 0 THEN Zero
        ELSE LET e == Exponent(q, 1, 0) IN [m |-> q * Pow2(e), e |-> e]

\* props.locked_ratio = resolution_x / resolution_y: the quotient of two
\* integers, stored in a single-precision property (round to nearest even;
\* the intermediate double does not change the result for y < 2^28).
Float32Div(x, y) ==
    IF x = 0 THEN Zero
    ELSE LET e == Exponent(x, y, 0)
             m == Round(x * Pow2(e), y)
         IN  IF m = Pow2(24) THEN [m |-> Pow2(23), e |-> e - 1]
             ELSE [m |-> m, e |-> e]

\* round(current_x / props.locked_ratio), ratio # 0
RoundDivRatio(v, ratio) == Round(v * Pow2(ratio.e), ratio.m)

\* round(current_y * props.locked_ratio)
RoundMulRatio(v, ratio) == Round(v * ratio.m, Pow2(ratio.e))

-----------------------------------------------------------------------------
(* register() and unregister(), as functions of what the host holds.       *)

\* The host before register(): nothing of the add-on is installed.
NotRegistered ==
    [class |-> FALSE, scene_prop |-> FALSE, panel |-> FALSE, subs |-> {},
     did |-> <<>>, undid |-> <<>>]

\* A statement of register() / of unregister() has run.
Did(h, what) == [h EXCEPT !.did = Append(@, what)]

Undid(h, what) == [h EXCEPT !.undid = Append(@, what)]

\* bpy.msgbus.clear_by_owner(MSGBUS_OWNER)
clear_by_owner(h) == [h EXCEPT !.subs = {}]

\* bpy.msgbus.subscribe_rna(key = ..., owner = MSGBUS_OWNER, ...)
subscribe_rna(h, key) == [h EXCEPT !.subs = @ \cup {key}]

redhalo_register_msgbus_handler(h) ==
    subscribe_rna(subscribe_rna(clear_by_owner(h), "resolution_x"),
                  "resolution_y")

unregister_msgbus_handler(h) == clear_by_owner(h)

register(h) ==
    LET h0 == [h EXCEPT !.did = <<>>, !.undid = <<>>]
        h1 == Did([h0 EXCEPT !.class = TRUE], "class")
        h2 == Did([h1 EXCEPT !.scene_prop = TRUE], "scene_prop")
        h3 == Did([h2 EXCEPT !.panel = TRUE], "panel")
    IN  Did(redhalo_register_msgbus_handler(h3), "msgbus")

\* unregister() with its statements in the order of register()'s.
unregister_SameOrder(h) ==
    LET h1 == Undid([h EXCEPT !.class = FALSE], "class")
        h2 == Undid([h1 EXCEPT !.scene_prop = FALSE], "scene_prop")
        h3 == Undid([h2 EXCEPT !.panel = FALSE], "panel")
    IN  Undid(unregister_msgbus_handler(h3), "msgbus")

unregister(h) ==
    LET h1 == Undid(unregister_msgbus_handler(h), "msgbus")
        h2 == Undid([h1 EXCEPT !.panel = FALSE], "panel")
        h3 == Undid([h2 EXCEPT !.scene_prop = FALSE], "scene_prop")
    IN  Undid([h3 EXCEPT !.class = FALSE], "class")

-----------------------------------------------------------------------------
(* The state the callbacks read and write, as one record, so that a        *)
(* callback and the calls nested in it are one function of it.             *)

World ==
    [resolution_x |-> resolution_x, resolution_y |-> resolution_y,
     is_locked |-> is_locked, locked_ratio |-> locked_ratio,
     prev_res_x |-> prev_res_x, prev_res_y |-> prev_res_y,
     flag |-> _is_internally_updating_resolution,
     pending |-> pending, log |-> <<>>, failAt |-> 0, raised |-> FALSE,
     subs |-> host.subs]

\* The program's own state in a world (no queue, no log).
Snap(w) ==
    [resolution_x |-> w.resolution_x, resolution_y |-> w.resolution_y,
     is_locked |-> w.is_locked, locked_ratio |-> w.locked_ratio,
     prev_res_x |-> w.prev_res_x, prev_res_y |-> w.prev_res_y,
     flag |-> w.flag]

RECURSIVE resolution_changed(_)
RECURSIVE HostWrite(_, _, _, _)

\* The writes the callbacks have tried so far in this step.
Attempts(w) ==
    Cardinality({i \in 1 .. Len(w.log) :
                    w.log[i].ev \in {"write", "fail"}
                    /\ w.log[i].by = "controller"})

\* bpy.msgbus: a change of key reaches the subscription of that key, whose
\* notify is resolution_changed; run now, or tagged for the next turn.
Publish(w, key) ==
    IF key \notin w.subs THEN w
    ELSE IF sync THEN resolution_changed(w)
    ELSE [w EXCEPT !.pending = @ \cup {key}]

\* render.resolution_x = v / render.resolution_y = v, by the user ("user")
\* or by a callback ("controller"): the host stores v and publishes.
HostWrite(w, key, v, by) ==
    IF by = "controller" /\ w.failAt = Attempts(w) + 1
    THEN [w EXCEPT !.raised = TRUE,
                   !.log = Append(@, [ev |-> "fail", key |-> key,
                                      val |-> v, by |-> by,
                                      flag |-> w.flag])]
    ELSE Publish([w EXCEPT ![key] = v,
                           !.log = Append(@, [ev |-> "write", key |-> key,
                                              val |-> v, by |-> by,
                                              flag |-> w.flag])], key)

\* except Exception as e: print(...) -- the error goes no further.
Swallow(w) == [w EXCEPT !.raised = FALSE]

\* The try block with the two branches in the other order: Y is looked at
\* first, so a call that finds both changed rewrites width.
Correct_YFirst(w) ==
    LET current_x == w.resolution_x
        current_y == w.resolution_y
        user_changed_y == current_y # w.prev_res_y
    IN  Swallow(
        IF user_changed_y
        THEN LET new_x == Max(1, RoundMulRatio(current_y, w.locked_ratio))
             IN  IF w.resolution_x # new_x
                 THEN HostWrite(w, "resolution_x", new_x, "controller")
                 ELSE w
        ELSE IF w.locked_ratio # Zero
             THEN LET new_y == Max(1, RoundDivRatio(current_x, w.locked_ratio))
                  IN  IF w.resolution_y # new_y
                      THEN HostWrite(w, "resolution_y", new_y, "controller")
                      ELSE w
             ELSE w)

\* The try block without its except clause: an error of the write leaves
\* the handler.
Correct_NoExcept(w) ==
    LET current_x == w.resolution_x
        current_y == w.resolution_y
        user_changed_x == current_x # w.prev_res_x
        tried ==
            IF user_changed_x
            THEN IF w.locked_ratio # Zero
                 THEN LET new_y ==
                              Max(1, RoundDivRatio(current_x, w.locked_ratio))
                      IN  IF w.resolution_y # new_y
                          THEN HostWrite(w, "resolution_y", new_y,
                                         "controller")
                          ELSE w
                 ELSE w
            ELSE LET new_x == Max(1, RoundMulRatio(current_y, w.locked_ratio))
                 IN  IF w.resolution_x # new_x
                     THEN HostWrite(w, "resolution_x", new_x, "controller")
                     ELSE w
    IN  tried

\* The try block of resolution_changed with its except clause.  The
\* assignment to _is_internally_updating_resolution in resolution_changed
\* has no global declaration: it binds a local name and leaves the module's
\* flag alone.
Correct(w) ==
    LET current_x == w.resolution_x
        current_y == w.resolution_y
        user_changed_x == current_x # w.prev_res_x
        tried ==
            IF user_changed_x
            THEN IF w.locked_ratio # Zero
                 THEN LET new_y ==
                              Max(1, RoundDivRatio(current_x, w.locked_ratio))
                      IN  IF w.resolution_y # new_y
                          THEN HostWrite(w, "resolution_y", new_y,
                                         "controller")
                          ELSE w
                 ELSE w
            ELSE LET new_x == Max(1, RoundMulRatio(current_y, w.locked_ratio))
                 IN  IF w.resolution_x # new_x
                     THEN HostWrite(w, "resolution_x", new_x, "controller")
                     ELSE w
    IN  Swallow(tried)

\* The handler without the early return for an unlocked scene: it corrects
\* the pair whether or not the lock is on.
Handle_NoUnlockedReturn(w) ==
    IF w.resolution_x = w.prev_res_x /\ w.resolution_y = w.prev_res_y
    THEN w
    ELSE LET w1 == Correct(w)
         IN  [w1 EXCEPT !.prev_res_x = w1.resolution_x,
                        !.prev_res_y = w1.resolution_y]

\* The handler without the early return for an unchanged pair: it goes on
\* to the Y branch and recomputes width.
Handle_NoUnchangedReturn(w) ==
    IF ~w.is_locked
    THEN [w EXCEPT !.prev_res_x = w.resolution_x,
                   !.prev_res_y = w.resolution_y]
    ELSE LET w1 == Correct(w)
         IN  [w1 EXCEPT !.prev_res_x = w1.resolution_x,
                        !.prev_res_y = w1.resolution_y]

\* The handler keeping ratio current while the lock is off: the unlocked
\* branch stores the quotient of the pair it records.
Handle_RefreshRatio(w) ==
    IF ~w.is_locked
    THEN [w EXCEPT !.prev_res_x = w.resolution_x,
                   !.prev_res_y = w.resolution_y,
                   !.locked_ratio = IF w.resolution_y # 0
                                    THEN Float32Div(w.resolution_x,
                                                    w.resolution_y)
                                    ELSE One]
    ELSE IF w.resolution_x = w.prev_res_x /\ w.resolution_y = w.prev_res_y
    THEN w
    ELSE LET w1 == Correct(w)
         IN  [w1 EXCEPT !.prev_res_x = w1.resolution_x,
                        !.prev_res_y = w1.resolution_y]

\* The handler recording the pair before it corrects it: the last-seen pair
\* misses the corrective write.
Handle_RefreshFirst(w) ==
    IF ~w.is_locked
    THEN [w EXCEPT !.prev_res_x = w.resolution_x,
                   !.prev_res_y = w.resolution_y]
    ELSE IF w.resolution_x = w.prev_res_x /\ w.resolution_y = w.prev_res_y
    THEN w
    ELSE LET w1 == Correct(w)
         IN  [w1 EXCEPT !.prev_res_x = w.resolution_x,
                        !.prev_res_y = w.resolution_y]

\* resolution_changed without the record of the call.
Handle(w) ==
    IF ~w.is_locked
    THEN [w EXCEPT !.prev_res_x = w.resolution_x,
                   !.prev_res_y = w.resolution_y]
    ELSE IF w.resolution_x = w.prev_res_x /\ w.resolution_y = w.prev_res_y
    THEN w
    ELSE LET w1 == Correct(w)
         IN  [w1 EXCEPT !.prev_res_x = w1.resolution_x,
                        !.prev_res_y = w1.resolution_y]

\* def resolution_changed(*args); the log gets the state at entry, the
\* state at return and the number of log entries at entry.
resolution_changed(w) ==
    LET r == Handle(w)
    IN  [r EXCEPT !.log = Append(@, [ev |-> "call", entry |-> Snap(w),
                                     exit |-> Snap(r),
                                     from |-> Len(w.log),
                                     raised |-> r.raised])]

\* def on_lock_toggle(props, scene), called after the host has stored the
\* new is_locked.  Nothing clears the flag once it is set.  The forced
\* write is in no try block: its error leaves the callback before the last
\* two assignments.
on_lock_toggle(w) ==
    IF w.flag THEN w
    ELSE LET w1 ==
                 IF w.is_locked
                 THEN LET wf == [w EXCEPT !.flag = TRUE]
                      IN  IF wf.resolution_y # 0
                          THEN [wf EXCEPT !.locked_ratio =
                                   Float32Div(wf.resolution_x, wf.resolution_y)]
                          ELSE LET wr == [wf EXCEPT !.locked_ratio = One]
                               IN  IF wr.resolution_x # 0
                                   THEN HostWrite(wr, "resolution_y",
                                                  wr.resolution_x, "controller")
                                   ELSE wr
                 ELSE w
         IN  IF w1.raised THEN w1
             ELSE [w1 EXCEPT !.prev_res_x = w1.resolution_x,
                             !.prev_res_y = w1.resolution_y]

\* The state after an operation that ends in world w.
Commit(w) ==
    /\ resolution_x' = w.resolution_x
    /\ resolution_y' = w.resolution_y
    /\ is_locked' = w.is_locked
    /\ locked_ratio' = w.locked_ratio
    /\ prev_res_x' = w.prev_res_x
    /\ prev_res_y' = w.prev_res_y
    /\ _is_internally_updating_resolution' = w.flag
    /\ pending' = w.pending
    /\ log' = w.log
    /\ UNCHANGED <<sync, minRes, faulty, host>>

-----------------------------------------------------------------------------
(* Operations.                                                             *)

\* No engagement on record.
NoPair == [x |-> -1, y |-> -1]

\* A fresh scene in a fresh session: the property defaults, the module's
\* flag as initialised, any resolution the host allows.
InitWith(lo) ==
    /\ minRes = lo
    /\ resolution_x \in lo .. MaxRes
    /\ resolution_y \in lo .. MaxRes
    /\ is_locked = FALSE
    /\ locked_ratio = One
    /\ prev_res_x = 0
    /\ prev_res_y = 0
    /\ _is_internally_updating_resolution = FALSE
    /\ pending = {}
    /\ sync \in BOOLEAN
    /\ log = <<>>
    /\ lastOp = [op |-> "Init", val |-> 0, locked |-> FALSE, quiet |-> TRUE]
    /\ engaged = NoPair

\* The add-on is enabled: register() has run.
Init ==
    InitWith(1) /\ faulty = FALSE /\ reloads = 0
    /\ host = register(NotRegistered)

InitZero ==
    InitWith(0) /\ faulty = FALSE /\ reloads = 0
    /\ host = register(NotRegistered)

\* The module is imported and register() has not run yet.
InitLife ==
    InitWith(1) /\ faulty = FALSE /\ reloads = 0 /\ host = NotRegistered

\* The same scene in a host that may refuse a callback's write.
InitFault ==
    InitWith(1) /\ faulty = TRUE /\ reloads = 0
    /\ host = register(NotRegistered)

\* Which callback write of a step the host refuses: 0 is none.
FailChoices == IF faulty THEN 0 .. MaxFailAt ELSE {0}

\* The world a step starts from when the host refuses write number f.
WorldWith(f) == [World EXCEPT !.failAt = f]

\* A user operation, with the lock and the queue as it found them.
Op(name, v) ==
    [op |-> name, val |-> v, locked |-> is_locked, quiet |-> pending = {}]

\* The engagement stays on record for the first edit that follows it.
StillEngaged == IF lastOp.op = "ToggleLock" THEN engaged ELSE NoPair

\* The user clicks the checkbox: the host flips is_locked and runs its
\* update callback.
ToggleLock ==
    \E f \in FailChoices :
        /\ host.scene_prop /\ host.panel
        /\ Commit(on_lock_toggle([WorldWith(f) EXCEPT
                                      !.is_locked = ~is_locked]))
        /\ lastOp' = Op("ToggleLock", 0)
        /\ engaged' = IF is_locked THEN NoPair
                      ELSE [x |-> resolution_x, y |-> resolution_y]
        /\ UNCHANGED reloads

\* The user types v into Resolution X.
SetResolutionX ==
    \E v \in minRes .. MaxRes, f \in FailChoices :
        /\ Commit(HostWrite(WorldWith(f), "resolution_x", v, "user"))
        /\ lastOp' = Op("SetResolutionX", v)
        /\ engaged' = StillEngaged
        /\ UNCHANGED reloads

\* The user types v into Resolution Y.
SetResolutionY ==
    \E v \in minRes .. MaxRes, f \in FailChoices :
        /\ Commit(HostWrite(WorldWith(f), "resolution_y", v, "user"))
        /\ lastOp' = Op("SetResolutionY", v)
        /\ engaged' = StillEngaged
        /\ UNCHANGED reloads

\* The host's event loop runs a tagged subscription.
Notify ==
    \E key \in pending, f \in FailChoices :
        /\ Commit(resolution_changed([WorldWith(f) EXCEPT
                                          !.pending = @ \ {key}]))
        /\ UNCHANGED <<lastOp, engaged, reloads>>

\* The host executes the module again on the scene as it is (Reload
\* Scripts, or a new session that opens the saved scene): the module-level
\* flag is initialised, the old subscriptions are gone with their owner,
\* and the scene keeps its properties.
ReloadModule ==
    /\ reloads < MaxReloads
    /\ reloads' = reloads + 1
    /\ _is_internally_updating_resolution' = FALSE
    /\ pending' = {}
    /\ log' = <<>>
    /\ lastOp' = Op("ReloadModule", 0)
    /\ engaged' = NoPair
    /\ UNCHANGED <<resolution_x, resolution_y, is_locked, locked_ratio,
                   prev_res_x, prev_res_y, sync, minRes, faulty, host>>

\* The user enables the add-on: the host calls register().
Register ==
    /\ ~host.class
    /\ host' = register(host)
    /\ log' = <<>>
    /\ lastOp' = Op("register", 0)
    /\ engaged' = NoPair
    /\ UNCHANGED <<resolution_x, resolution_y, is_locked, locked_ratio,
                   prev_res_x, prev_res_y,
                   _is_internally_updating_resolution, pending, sync,
                   minRes, faulty, reloads>>

\* The user disables the add-on: the host calls unregister(); what was
\* tagged for the owner goes with its subscriptions, the scene keeps the
\* property values.
Unregister ==
    /\ host.class
    /\ host' = unregister(host)
    /\ pending' = {}
    /\ log' = <<>>
    /\ lastOp' = Op("unregister", 0)
    /\ engaged' = NoPair
    /\ UNCHANGED <<resolution_x, resolution_y, is_locked, locked_ratio,
                   prev_res_x, prev_res_y,
                   _is_internally_updating_resolution, sync, minRes,
                   faulty, reloads>>

Next == ToggleLock \/ SetResolutionX \/ SetResolutionY \/ Notify

NextReload == Next \/ ReloadModule

NextLife == Next \/ Register \/ Unregister

Spec == Init /\ [][Next]_vars

SpecZero == InitZero /\ [][Next]_vars

SpecFault == InitFault /\ [][Next]_vars

SpecReload == Init /\ [][NextReload]_vars

SpecLife == InitLife /\ [][NextLife]_vars

-----------------------------------------------------------------------------
(* What the properties below speak of.                                     *)

\* No notification is outstanding (no handler runs between two steps).
Quiescent == pending = {}

\* v clamped to at least 1.
AtLeastOne(v) == IF v < 1 THEN 1 ELSE v

\* round(n / d) clamped to at least 1, as a set: the nearest integer, and
\* at an exact half either neighbour (the tie rule is left open).
ClampedRound(n, d) ==
    LET q == n \div d
        r == n % d
    IN  IF 2 * r > d THEN {AtLeastOne(q + 1)}
        ELSE IF 2 * r < d THEN {AtLeastOne(q)}
        ELSE {AtLeastOne(q), AtLeastOne(q + 1)}

\* The positions of the log at which a callback wrote a resolution.
ControllerWrites == {i \in 1 .. Len(log) :
                        log[i].ev = "write" /\ log[i].by = "controller"}

\* The positions of the log that record a resolution_changed call.
Calls == {i \in 1 .. Len(log) : log[i].ev = "call"}

\* The positions of the writes made while call i ran, nested calls included.
WritesDuring(i) == {j \in ControllerWrites : log[i].from < j /\ j < i}

\* The user's last operation was an edit made while the lock was on and
\* nothing was outstanding, the first edit after an engagement at a
\* positive pair, and it has been handled.
EditHandled(name) ==
    /\ lastOp.op = name
    /\ lastOp.locked
    /\ lastOp.quiet
    /\ lastOp.val >= 1
    /\ engaged.x >= 1
    /\ engaged.y >= 1
    /\ is_locked
    /\ Quiescent

-----------------------------------------------------------------------------
\* C1: the lock is engaged at a positive pair (w, h) and the user then sets
\* width to w2 >= 1: once the edit is handled, height is round(w2 * h / w)
\* clamped to at least 1 and width is still w2.
C1_WidthEditSetsHeight ==
    EditHandled("SetResolutionX") =>
        /\ resolution_y \in ClampedRound(lastOp.val * engaged.y, engaged.x)
        /\ resolution_x = lastOp.val

\* C2: the lock is engaged at a positive pair (w, h) and the user then sets
\* height to h2 >= 1: once the edit is handled, width is round(h2 * w / h)
\* clamped to at least 1.
C2_HeightEditSetsWidth ==
    EditHandled("SetResolutionY") =>
        resolution_x \in ClampedRound(lastOp.val * engaged.x, engaged.y)

\* C3: every step that takes the lock from off to on with height # 0 leaves
\* ratio = width / height of the pair current at that step.
C3_RatioCapturedAtEveryEngagement ==
    [][(~is_locked /\ is_locked' /\ resolution_y # 0)
          => locked_ratio' = Float32Div(resolution_x, resolution_y)]_vars

\* C4: in every quiescent state with the lock on, height is
\* round(width / ratio) or width is round(height * ratio), clamped to at
\* least 1.
C4_LockedPairSatisfiesRatio ==
    (is_locked /\ Quiescent) =>
        \/ /\ locked_ratio # Zero
           /\ resolution_y = AtLeastOne(RoundDivRatio(resolution_x, locked_ratio))
        \/ resolution_x = AtLeastOne(RoundMulRatio(resolution_y, locked_ratio))

\* C5: when the host runs the subscriber inside the write, the cascade one
\* user edit of width or height starts makes at most one controller write.
C5_OneCorrectiveWritePerEdit ==
    (sync /\ lastOp.op \in {"SetResolutionX", "SetResolutionY"}) =>
        Cardinality(ControllerWrites) <= 1

\* C6: a resolution_changed call that finds the lock off writes neither
\* width nor height nor ratio: it returns with lastWidth / lastHeight set to
\* the current pair and everything else as it found it.
C6_UnlockedCallOnlyRefreshes ==
    \A i \in Calls :
        ~log[i].entry.is_locked =>
            /\ log[i].exit =
                   [log[i].entry EXCEPT
                        !.prev_res_x = log[i].entry.resolution_x,
                        !.prev_res_y = log[i].entry.resolution_y]
            /\ WritesDuring(i) = {}

\* C6 happens: the user edited width alone with the lock off, and the call
\* that handled it found a stale lastWidth.
C6_Witness ==
    /\ lastOp.op = "SetResolutionX"
    /\ \E i \in Calls :
           /\ ~log[i].entry.is_locked
           /\ log[i].entry.prev_res_x # log[i].entry.resolution_x
           /\ log[i].entry.resolution_y # log[i].entry.resolution_x

\* C7: engaging the lock at height = 0 and width = w # 0 ends with
\* ratio = 1.0, height = width = w and lastWidth = lastHeight = w, and no
\* write to width or height follows the forced write of height.
C7_EngageAtZeroHeight ==
    (lastOp.op = "ToggleLock" /\ ~lastOp.locked
        /\ engaged.y = 0 /\ engaged.x >= 1) =>
        /\ locked_ratio = One
        /\ resolution_x = engaged.x
        /\ resolution_y = engaged.x
        /\ prev_res_x = engaged.x
        /\ prev_res_y = engaged.x
        /\ \A j \in ControllerWrites :
               /\ sync \/ Calls = {}
               /\ j = 1
               /\ log[j].key = "resolution_y"
               /\ log[j].val = engaged.x

\* C8: a call that finds the lock on and width = lastWidth and
\* height = lastHeight returns with width, height, ratio, lastWidth,
\* lastHeight and the flag as it found them, and writes nothing.
C8_UnchangedPairIsNoOp ==
    \A i \in Calls :
        (/\ log[i].entry.is_locked
         /\ log[i].entry.resolution_x = log[i].entry.prev_res_x
         /\ log[i].entry.resolution_y = log[i].entry.prev_res_y) =>
            /\ log[i].exit = log[i].entry
            /\ WritesDuring(i) = {}

\* C8 happens: a call found the lock on and the pair as last seen, while
\* the pair was not the one the ratio asks for.
C8_Witness ==
    \E i \in Calls :
        /\ log[i].entry.is_locked
        /\ log[i].entry.resolution_x = log[i].entry.prev_res_x
        /\ log[i].entry.resolution_y = log[i].entry.prev_res_y
        /\ log[i].entry.resolution_x #
               AtLeastOne(RoundMulRatio(log[i].entry.resolution_y,
                                    log[i].entry.locked_ratio))

\* C9: a call that finds the lock on and both width # lastWidth and
\* height # lastHeight writes height only: it returns with width as given
\* and height = round(width / ratio) clamped to at least 1.
C9_BothChangedAdjustsHeight ==
    \A i \in Calls :
        (/\ log[i].entry.is_locked
         /\ log[i].entry.resolution_x # log[i].entry.prev_res_x
         /\ log[i].entry.resolution_y # log[i].entry.prev_res_y) =>
            /\ log[i].entry.locked_ratio # Zero
            /\ log[i].exit.resolution_x = log[i].entry.resolution_x
            /\ log[i].exit.resolution_y =
                   AtLeastOne(RoundDivRatio(log[i].entry.resolution_x,
                                        log[i].entry.locked_ratio))
            /\ \A j \in WritesDuring(i) : log[j].key = "resolution_y"

\* C9 happens: a call found both changed, and the width the height is
\* computed from differs from the width the given height would ask for.
C9_Witness ==
    \E i \in Calls :
        /\ log[i].entry.is_locked
        /\ log[i].entry.resolution_x # log[i].entry.prev_res_x
        /\ log[i].entry.resolution_y # log[i].entry.prev_res_y
        /\ log[i].entry.resolution_x #
               AtLeastOne(RoundMulRatio(log[i].entry.resolution_y,
                                    log[i].entry.locked_ratio))
        /\ log[i].exit.resolution_y # log[i].entry.resolution_y

\* C10: every value a callback writes to width or height is at least 1,
\* and with every user value at least 1, width >= 1 and height >= 1.
C10_ResolutionAtLeastOne ==
    /\ \A j \in ControllerWrites : log[j].val >= 1
    /\ resolution_x >= 1
    /\ resolution_y >= 1

\* C10 happens: a callback wrote 1 where the rounded quotient was 0.
C10_Witness ==
    \E j \in ControllerWrites :
        /\ log[j].key = "resolution_y"
        /\ log[j].val = 1
        /\ locked_ratio # Zero
        /\ RoundDivRatio(resolution_x, locked_ratio) = 0

\* C12: in every quiescent state (no callback runs between two steps, no
\* notification is outstanding) the module's flag is false.
C12_FlagClearWhenQuiescent ==
    Quiescent => ~_is_internally_updating_resolution

\* C14: ratio changes only in a step that takes the lock from off to on.
C14_RatioWrittenOnlyAtEngagement ==
    [][locked_ratio' # locked_ratio => (~is_locked /\ is_locked')]_vars

\* C14 happens: the lock was engaged and ratio is no longer the default,
\* and the lock was turned off, and an edit was handled since.
C14_Witness ==
    /\ locked_ratio # One
    /\ ~is_locked
    /\ lastOp.op = "SetResolutionY"
    /\ Calls # {}

\* C16: with every width at least 1, ratio is not zero in any state in
\* which the lock is on.
C16_RatioNonZeroWhileLocked ==
    is_locked => locked_ratio # Zero

\* C16 happens: the lock is on with a ratio below 1 captured at an
\* engagement, after an off/on cycle.
C16_Witness ==
    /\ is_locked
    /\ lastOp.op = "ToggleLock"
    /\ _is_internally_updating_resolution
    /\ engaged.x >= 1
    /\ locked_ratio.e > 23
    /\ Float32Div(engaged.x, engaged.y) # locked_ratio

\* C18: while the lock is on, once a user edit of one field alone has been
\* handled, nested notifications included, that field still has the value
\* the user gave it.
C18_EditedFieldKept ==
    (is_locked /\ Quiescent /\ lastOp.locked /\ lastOp.quiet) =>
        /\ lastOp.op = "SetResolutionX" => resolution_x = lastOp.val
        /\ lastOp.op = "SetResolutionY" => resolution_y = lastOp.val

\* The write call i made itself was refused by the host.
OwnWriteFailed(i) ==
    /\ i >= 2
    /\ log[i - 1].ev = "fail"
    /\ log[i].from = i - 2

\* C15: a resolution_changed call whose corrective write fails returns
\* normally, with width and height as it found them and lastWidth /
\* lastHeight equal to them, and no controller write follows in the step.
C15_FailedWriteIsSwallowed ==
    \A i \in Calls :
        OwnWriteFailed(i) =>
            /\ ~log[i].raised
            /\ log[i].exit.resolution_x = log[i].entry.resolution_x
            /\ log[i].exit.resolution_y = log[i].entry.resolution_y
            /\ log[i].exit.prev_res_x = log[i].entry.resolution_x
            /\ log[i].exit.prev_res_y = log[i].entry.resolution_y
            /\ \A j \in ControllerWrites : j < i - 1
            /\ (Quiescent /\ i = Len(log)) =>
                   (prev_res_x = resolution_x /\ prev_res_y = resolution_y)

\* C15 happens: the user edited width with the lock on, the corrective
\* write of height was refused, and the pair is left off the ratio.
C15_Witness ==
    /\ lastOp.op = "SetResolutionX"
    /\ lastOp.locked
    /\ \E i \in Calls :
           /\ OwnWriteFailed(i)
           /\ log[i - 1].key = "resolution_y"
           /\ log[i - 1].val # log[i].exit.resolution_y

\* C17: every resolution_changed call returns with lastWidth = width and
\* lastHeight = height; and in a quiescent state, once lastWidth has been
\* recorded, the last-seen pair is the real pair.
C17_LastSeenIsCurrent ==
    /\ \A i \in Calls :
           /\ log[i].exit.prev_res_x = log[i].exit.resolution_x
           /\ log[i].exit.prev_res_y = log[i].exit.resolution_y
    /\ (Quiescent /\ prev_res_x # 0) =>
           (prev_res_x = resolution_x /\ prev_res_y = resolution_y)

\* C17 happens: a nested call returned after the outer call's corrective
\* write, and a call returned after a refused write.
C17_Witness ==
    \/ \E i, k \in Calls :
           /\ i < k
           /\ log[k].from < log[i].from
           /\ log[i].entry.prev_res_x # log[i].entry.resolution_x
           /\ log[i].entry.is_locked
    \/ \E i \in Calls : OwnWriteFailed(i)

\* C13: whenever a callback writes width or height, the module's flag is
\* true at that moment.
C13_FlagSetAtControllerWrites ==
    \A j \in ControllerWrites : log[j].flag

\* The sequence s from its last element to its first.
Reverse(s) == [i \in 1 .. Len(s) |-> s[Len(s) + 1 - i]]

\* C11: once unregister() has run, its steps are register()'s four in
\* reverse order, no subscription of the owner remains, and no handler is
\* called or tagged until register() runs again.
C11_UnregisterReversesRegister ==
    host.undid # <<>> =>
        /\ Len(host.did) = 4
        /\ host.undid = Reverse(host.did)
        /\ host.subs = {}
        /\ pending = {}
        /\ Calls = {}

\* The add-on was disabled with the lock on, and an edit made since went
\* unnoticed.
C11_Witness ==
    /\ host.undid # <<>>
    /\ is_locked
    /\ lastOp.op = "SetResolutionX"
    /\ prev_res_x # resolution_x

====
